---- MODULE Spec2Model ----
(***************************************************************************)
(* The codec pipeline of zarrita (src/zarrita/codecs.py): the blosc, gzip, *)
(* endian and transpose codecs, the factory helpers, and the chain that    *)
(* runs them over a value handle.                                          *)
(***************************************************************************)
EXTENDS Integers, Sequences, FiniteSets, TLC

VARIABLES
    host,    \* sys.byteorder of the interpreter: "little" or "big"
    meta,    \* the CoreArrayMetadata of the open array: chunk_shape, data_type
    chain,   \* the codec instances constructed so far, in declaration order
    run,     \* the chain execution in progress (one encode or decode pass pair)
    log,     \* the calls made directly on codec instances, with their outcomes
    lists,   \* the heap of Python list objects holding codecs, by identity
    shards   \* the ShardingCodecMetadata instances returned by sharding_codec

vars == <<host, meta, chain, run, log, lists, shards>>

(***************************************************************************)
(* Bounds of the model.                                                    *)
(***************************************************************************)
MaxChain == 3
MaxCalls == 3
MaxShards == 3
MaxListLen == 2

(***************************************************************************)
(* Sequences of numbers and of bytes.                                      *)
(***************************************************************************)
RECURSIVE ProductRange(_, _, _)
ProductRange(s, a, b) ==
    IF a > b THEN 1 ELSE s[a] * ProductRange(s, a + 1, b)

Product(s) == ProductRange(s, 1, Len(s))

RECURSIVE Flatten(_)
Flatten(ss) ==
    IF Len(ss) = 0 THEN <<>> ELSE Head(ss) \o Flatten(Tail(ss))

Reverse(s) == [i \in 1..Len(s) |-> s[Len(s) + 1 - i]]

\* The bytes of `bs` cut into consecutive elements of `size` bytes each.
Regroup(bs, size) ==
    [k \in 1..(Len(bs) \div size) |-> SubSeq(bs, (k - 1) * size + 1, k * size)]

(***************************************************************************)
(* Index arithmetic of an n-dimensional array.  Multi-indices and linear   *)
(* indices are 0-based as in numpy; TLA+ sequences are 1-based.            *)
(***************************************************************************)
CUnravel(k, shape) ==
    [i \in 1..Len(shape) |->
        (k \div ProductRange(shape, i + 1, Len(shape))) % shape[i]]

FUnravel(k, shape) ==
    [i \in 1..Len(shape) |-> (k \div ProductRange(shape, 1, i - 1)) % shape[i]]

RECURSIVE CRavelFrom(_, _, _, _)
CRavelFrom(idx, shape, i, acc) ==
    IF i > Len(shape) THEN acc
    ELSE CRavelFrom(idx, shape, i + 1, acc * shape[i] + idx[i])

CRavel(idx, shape) == CRavelFrom(idx, shape, 1, 0)

RECURSIVE FRavelFrom(_, _, _, _)
FRavelFrom(idx, shape, i, acc) ==
    IF i < 1 THEN acc
    ELSE FRavelFrom(idx, shape, i - 1, acc * shape[i] + idx[i])

FRavel(idx, shape) == FRavelFrom(idx, shape, Len(shape), 0)

\* The elements (given in logical row-major order) read in column-major order.
FOrder(elems, shape) ==
    [j \in 1..Len(elems) |-> elems[CRavel(FUnravel(j - 1, shape), shape) + 1]]

\* The row-major elements of the array of `shape` whose column-major reading
\* is `read`.
FromFOrder(read, shape) ==
    [k \in 1..Len(read) |-> read[FRavel(CUnravel(k - 1, shape), shape) + 1]]

IsPermutation(axes, n) ==
    /\ Len(axes) = n
    /\ \A a \in 0..(n - 1) : \E i \in 1..n : axes[i] = a

(***************************************************************************)
(* Outcomes.  Every value that flows through the model is a record with a  *)
(* `kind`; a raised exception is the record Raise(..).                     *)
(***************************************************************************)
Raise(e) == [kind |-> "Error", err |-> e]

IsError(r) == r.kind = "Error"

None == [kind |-> "None"]

Some(v) == [kind |-> "Some", v |-> v]

(***************************************************************************)
(* numpy: dtypes and arrays.  A dtype is its item size and its effective   *)
(* byte order ("none" for one-byte items).  An array keeps its elements in *)
(* logical row-major order, each element being its bytes as they lie in    *)
(* memory, and the layout of its memory: "C", "F" or "N" (a strided view   *)
(* that is neither).                                                       *)
(***************************************************************************)
DType(itemsize, order) == [itemsize |-> itemsize, order |-> order]

\* np.dtype(name) for the data types used here; a name without an explicit
\* order means the host's native order.
NpDtype(name) ==
    IF name = "uint8" THEN DType(1, "none") ELSE DType(2, host)

\* dtype.byteorder: numpy reports "=" for the native order, "|" when the
\* order does not apply, and "<" or ">" only for a non-native order.
DtypeByteorder(dt) ==
    IF dt.order = "none" THEN "|"
    ELSE IF dt.order = host THEN "="
    ELSE IF dt.order = "little" THEN "<"
    ELSE ">"

\* dtype.newbyteorder(new_order) with new_order "little" or "big": the dtype
\* forced to that order; a one-byte dtype has no order to change.
newbyteorder(dt, new_order) ==
    IF dt.order = "none" THEN dt ELSE [dt EXCEPT !.order = new_order]

IsVectorLike(shape) == Cardinality({i \in 1..Len(shape) : shape[i] > 1}) <= 1

NormLayout(layout, shape) ==
    IF layout \in {"C", "F"} /\ IsVectorLike(shape) THEN "C" ELSE layout

NdArray(dtype, shape, layout, elems) ==
    [kind |-> "ndarray", dtype |-> dtype, shape |-> shape,
     layout |-> NormLayout(layout, shape), elems |-> elems]

c_contiguous(a) == a.layout = "C"

f_contiguous(a) == a.layout = "F" \/ (a.layout = "C" /\ IsVectorLike(a.shape))

\* The bytes the array addresses, in memory order.
MemBytes(a) ==
    IF a.layout = "F" THEN Flatten(FOrder(a.elems, a.shape))
    ELSE Flatten(a.elems)

\* The value of one element: its bytes read in the dtype's byte order.
RECURSIVE BigEndianValue(_)
BigEndianValue(bs) ==
    IF Len(bs) = 0 THEN 0
    ELSE BigEndianValue(SubSeq(bs, 1, Len(bs) - 1)) * 256 + bs[Len(bs)]

ElemValue(bs, dt) ==
    IF dt.order = "little" THEN BigEndianValue(Reverse(bs))
    ELSE BigEndianValue(bs)

ArrayValues(a) == [k \in 1..Len(a.elems) |-> ElemValue(a.elems[k], a.dtype)]

\* ndarray.view(dtype)
ViewDtype(a, dt) ==
    IF dt.itemsize = a.dtype.itemsize THEN [a EXCEPT !.dtype = dt]
    ELSE IF Len(a.shape) = 0 \/ a.layout # "C" THEN Raise("ValueError")
    ELSE LET d == Len(a.shape)
             rowbytes == a.shape[d] * a.dtype.itemsize
         IN  IF rowbytes % dt.itemsize # 0 THEN Raise("ValueError")
             ELSE NdArray(dt,
                          [a.shape EXCEPT ![d] = rowbytes \div dt.itemsize],
                          "C",
                          Regroup(Flatten(a.elems), dt.itemsize))

\* ndarray.reshape(-1, order=order)
ReshapeFlat(a, order) ==
    NdArray(a.dtype, <<Len(a.elems)>>, "C",
            IF order = "C" THEN a.elems ELSE FOrder(a.elems, a.shape))

\* ndarray.reshape(shape, order=order)
ReshapeTo(a, shape, order) ==
    IF Product(shape) # Len(a.elems) THEN Raise("ValueError")
    ELSE IF order = "C" THEN NdArray(a.dtype, shape, "C", a.elems)
    ELSE NdArray(a.dtype, shape, "F",
                 FromFOrder(FOrder(a.elems, a.shape), shape))

\* ndarray.transpose(axes)
Transpose(a, axes) ==
    IF ~IsPermutation(axes, Len(a.shape)) THEN Raise("ValueError")
    ELSE LET d == Len(a.shape)
             ns == [i \in 1..d |-> a.shape[axes[i] + 1]]
             pos(m) == CHOOSE i \in 1..d : axes[i] = m - 1
             old(k) == LET idx == CUnravel(k - 1, ns)
                       IN  [m \in 1..d |-> idx[pos(m)]]
             layout == IF \A i \in 1..d : axes[i] = i - 1 THEN a.layout
                       ELSE IF \A i \in 1..d : axes[i] = d - i
                            THEN (IF a.layout = "C" THEN "F"
                                  ELSE IF a.layout = "F" THEN "C" ELSE "N")
                       ELSE "N"
         IN  NdArray(a.dtype, ns, layout,
                     [k \in 1..Len(a.elems) |->
                         a.elems[CRavel(old(k), a.shape) + 1]])

\* ndarray.copy(order="K")
CopyK(a) == IF a.layout = "N" THEN [a EXCEPT !.layout = "C"] ELSE a

(***************************************************************************)
(* zarrita.value_handle: the three value handles and their conversions.    *)
(***************************************************************************)
NoneHandle == [kind |-> "Empty"]

BufferHandle(buf) == [kind |-> "Bytes", buf |-> buf]

ArrayHandle(array) == [kind |-> "Array", array |-> array]

tobytes(value) ==
    IF value.kind = "Empty" THEN None
    ELSE IF value.kind = "Bytes" THEN Some(value.buf)
    ELSE Some(Flatten(value.array.elems))

toarray(value) ==
    IF value.kind = "Empty" THEN None
    ELSE IF value.kind = "Array" THEN Some(value.array)
    ELSE Some(NdArray(DType(1, "none"), <<Len(value.buf)>>, "C",
                      [i \in 1..Len(value.buf) |-> <<value.buf[i]>>]))

(***************************************************************************)
(* numcodecs: the Blosc and GZip compressors, as a run-length coding under *)
(* a header.  Decompression reads everything it needs from the buffer.     *)
(* Each returns Some(bytes) or the exception raised.                       *)
(***************************************************************************)
RunLength(bs) ==
    CHOOSE n \in 1..Len(bs) :
        /\ \A i \in 1..n : bs[i] = bs[1]
        /\ (n = Len(bs) \/ bs[n + 1] # bs[1])

RECURSIVE RLE(_)
RLE(bs) ==
    IF Len(bs) = 0 THEN <<>>
    ELSE LET n == RunLength(bs)
         IN  <<n, bs[1]>> \o RLE(SubSeq(bs, n + 1, Len(bs)))

ValidRLE(cs) ==
    /\ Len(cs) % 2 = 0
    /\ \A i \in 1..Len(cs) : i % 2 = 1 => cs[i] >= 1

RECURSIVE UnRLE(_)
UnRLE(cs) ==
    IF Len(cs) = 0 THEN <<>>
    ELSE [i \in 1..cs[1] |-> cs[2]] \o UnRLE(SubSeq(cs, 3, Len(cs)))

BloscCompressors == {"lz4", "lz4hc", "blosclz", "zstd", "snappy", "zlib"}

\* Blosc.from_config(d).encode(bytes): the compressor is looked up by name
\* when the data is compressed.
BloscCompress(d, bs) ==
    IF d.cname \notin BloscCompressors THEN Raise("ValueError")
    ELSE Some(<<2, d.shuffle, Len(bs)>> \o RLE(bs))

\* Blosc.from_config(d).decode(buf)
BloscDecompress(d, buf) ==
    LET body == SubSeq(buf, 4, Len(buf))
    IN  IF Len(buf) < 3 \/ buf[1] # 2 \/ ~ValidRLE(body) THEN Raise("RuntimeError")
        ELSE IF Len(UnRLE(body)) # buf[3] THEN Raise("RuntimeError")
        ELSE Some(UnRLE(body))

\* GZip(level).encode(buf)
GZipCompress(level, bs) == Some(<<31, 139, level>> \o RLE(bs) \o <<Len(bs)>>)

\* GZip(level).decode(buf)
GZipDecompress(level, buf) ==
    LET body == SubSeq(buf, 4, Len(buf) - 1)
    IN  IF Len(buf) < 4 \/ buf[1] # 31 \/ buf[2] # 139 \/ ~ValidRLE(body)
        THEN Raise("OSError")
        ELSE IF Len(UnRLE(body)) # buf[Len(buf)] THEN Raise("OSError")
        ELSE Some(UnRLE(body))

(***************************************************************************)
(* The decorators.  Each converts the value handle and tells the wrapped   *)
(* method whether to return NoneHandle() without running its body.         *)
(***************************************************************************)
\* The decorator without its `if buf is None` test: the body always runs.
_needs_bytes_unchecked(value) == [skip |-> FALSE, arg |-> tobytes(value)]

_needs_bytes(value) ==
    LET buf == tobytes(value)
    IN  IF buf.kind = "None" THEN [skip |-> TRUE, arg |-> buf]
        ELSE [skip |-> FALSE, arg |-> buf]

_needs_array(value) ==
    LET array == toarray(value)
    IN  IF array.kind = "None" THEN [skip |-> TRUE, arg |-> array]
        ELSE [skip |-> FALSE, arg |-> array]

\* What a method body gets from a numpy or numcodecs call on an argument:
\* the call's result, or TypeError when the argument is None.
OnSome(arg, result) == IF arg.kind = "None" THEN Raise("TypeError") ELSE result

\* The handle a method returns from a library result: the exception goes out
\* as it is, the bytes in a BufferHandle.
BufferResult(r) == IF IsError(r) THEN r ELSE BufferHandle(r.v)

ArrayResult(r) == IF IsError(r) THEN r ELSE ArrayHandle(r)

(***************************************************************************)
(* The blosc codec.  The methods of a codec return the instance as the     *)
(* call leaves it (`self`) and the call's outcome (`out`).                 *)
(***************************************************************************)
BloscCodecConfigurationMetadata(cname, clevel, shuffle, blocksize) ==
    [cname |-> cname, clevel |-> clevel, shuffle |-> shuffle,
     blocksize |-> blocksize]

BloscCodecMetadata(configuration) ==
    [name |-> "blosc", configuration |-> configuration]

map_shuffle_str_to_int ==
    ("noshuffle" :> 0) @@ ("shuffle" :> 1) @@ ("bitshuffle" :> 2)

\* The method writing d["shuffle"] into the instance's own configuration
\* instead of into the copy asdict() makes.
BloscCodecMetadata_get_blosc_codec_inplace(self) ==
    LET d == self.configuration
    IN  IF d.shuffle \notin DOMAIN map_shuffle_str_to_int
        THEN [self |-> self, blosc |-> Raise("KeyError")]
        ELSE [self |-> [self EXCEPT !.configuration.shuffle =
                                      ToString(map_shuffle_str_to_int[d.shuffle])],
              blosc |-> Some([d EXCEPT
                                !.shuffle = map_shuffle_str_to_int[d.shuffle]])]

\* asdict() copies the configuration, so writing d["shuffle"] leaves the
\* instance as it was.
BloscCodecMetadata_get_blosc_codec(self) ==
    LET d == self.configuration
    IN  IF d.shuffle \notin DOMAIN map_shuffle_str_to_int
        THEN [self |-> self, blosc |-> Raise("KeyError")]
        ELSE [self |-> self,
              blosc |-> Some([d EXCEPT
                                !.shuffle = map_shuffle_str_to_int[d.shuffle]])]

BloscCodecMetadata_decode(self, value, array_metadata) ==
    LET w == _needs_bytes(value)
        g == BloscCodecMetadata_get_blosc_codec(self)
    IN  IF w.skip THEN [self |-> self, out |-> NoneHandle]
        ELSE IF IsError(g.blosc) THEN [self |-> g.self, out |-> g.blosc]
        ELSE [self |-> g.self,
              out |-> BufferResult(
                        OnSome(w.arg, BloscDecompress(g.blosc.v, w.arg.v)))]

BloscCodecMetadata_encode(self, value, array_metadata) ==
    LET w == _needs_array(value)
        chunk == IF ~c_contiguous(w.arg.v) /\ ~f_contiguous(w.arg.v)
                 THEN CopyK(w.arg.v) ELSE w.arg.v
        g == BloscCodecMetadata_get_blosc_codec(self)
    IN  IF w.skip THEN [self |-> self, out |-> NoneHandle]
        ELSE IF w.arg.kind = "None" THEN [self |-> self, out |-> Raise("AttributeError")]
        ELSE IF IsError(g.blosc) THEN [self |-> g.self, out |-> g.blosc]
        ELSE [self |-> g.self,
              out |-> BufferResult(BloscCompress(g.blosc.v, MemBytes(chunk)))]

(***************************************************************************)
(* The endian codec.                                                       *)
(***************************************************************************)
EndianCodecConfigurationMetadata(endian) == [endian |-> endian]

EndianCodecMetadata(configuration) ==
    [name |-> "endian", configuration |-> configuration]

EndianCodecMetadata_get_byteorder(array) ==
    IF DtypeByteorder(array.dtype) = "<" THEN "little"
    ELSE IF DtypeByteorder(array.dtype) = ">" THEN "big"
    ELSE host

EndianCodecMetadata_decode(self, value, array_metadata) ==
    LET w == _needs_array(value)
        chunk == w.arg.v
        byteorder == EndianCodecMetadata_get_byteorder(chunk)
    IN  IF w.skip THEN NoneHandle
        ELSE IF w.arg.kind = "None" THEN Raise("AttributeError")
        ELSE IF self.configuration.endian # byteorder
        THEN ArrayResult(ViewDtype(chunk, newbyteorder(chunk.dtype, byteorder)))
        ELSE ArrayHandle(chunk)

\* ndarray.astype(dtype): the values converted, so the bytes of each element
\* are swapped when the order changes.
AsType(a, dt) ==
    IF dt.order = a.dtype.order THEN a
    ELSE [a EXCEPT !.dtype = dt,
                   !.elems = [k \in 1..Len(a.elems) |-> Reverse(a.elems[k])]]

\* encode converting the chunk to the configured order with astype instead
\* of reinterpreting it with view.
EndianCodecMetadata_encode_astype(self, value, array_metadata) ==
    LET w == _needs_array(value)
        chunk == w.arg.v
        byteorder == EndianCodecMetadata_get_byteorder(chunk)
    IN  IF w.skip THEN NoneHandle
        ELSE IF self.configuration.endian # byteorder
        THEN ArrayHandle(AsType(chunk,
                 newbyteorder(chunk.dtype, self.configuration.endian)))
        ELSE ArrayHandle(chunk)

EndianCodecMetadata_encode(self, value, array_metadata) ==
    LET w == _needs_array(value)
        chunk == w.arg.v
        byteorder == EndianCodecMetadata_get_byteorder(chunk)
    IN  IF w.skip THEN NoneHandle
        ELSE IF w.arg.kind = "None" THEN Raise("AttributeError")
        ELSE IF self.configuration.endian # byteorder
        THEN ArrayResult(ViewDtype(chunk, newbyteorder(chunk.dtype, byteorder)))
        ELSE ArrayHandle(chunk)

(***************************************************************************)
(* The transpose codec.  The configured order is a name ("C" or "F") or a  *)
(* tuple of axes; `istuple` is isinstance(new_order, tuple).               *)
(***************************************************************************)
NamedOrder(name) == [istuple |-> FALSE, name |-> name, axes |-> <<>>]

TupleOrder(axes) == [istuple |-> TRUE, name |-> "", axes |-> axes]

TransposeCodecConfigurationMetadata(order) == [order |-> order]

TransposeCodecMetadata(configuration) ==
    [name |-> "transpose", configuration |-> configuration]

TransposeCodecMetadata_decode(self, value, array_metadata) ==
    LET w == _needs_array(value)
        new_order == self.configuration.order
        chunk == ViewDtype(w.arg.v, NpDtype(array_metadata.data_type))
    IN  IF w.skip THEN NoneHandle
        ELSE IF w.arg.kind = "None" THEN Raise("AttributeError")
        ELSE IF IsError(chunk) THEN chunk
        ELSE IF new_order.istuple
        THEN ArrayResult(Transpose(chunk, new_order.axes))
        ELSE ArrayResult(ReshapeTo(chunk, array_metadata.chunk_shape,
                                   new_order.name))

TransposeCodecMetadata_encode(self, value, array_metadata) ==
    LET w == _needs_array(value)
        new_order == self.configuration.order
        chunk == w.arg.v
    IN  IF w.skip THEN NoneHandle
        ELSE IF w.arg.kind = "None" THEN Raise("AttributeError")
        ELSE IF new_order.istuple THEN ArrayHandle(ReshapeFlat(chunk, "C"))
        ELSE ArrayHandle(ReshapeFlat(chunk, new_order.name))

(***************************************************************************)
(* The gzip codec.                                                         *)
(***************************************************************************)
GzipCodecConfigurationMetadata(level) == [level |-> level]

GzipCodecMetadata(configuration) ==
    [name |-> "gzip", configuration |-> configuration]

GzipCodecMetadata_decode(self, value, array_metadata) ==
    LET w == _needs_bytes(value)
    IN  IF w.skip THEN NoneHandle
        ELSE BufferResult(
               OnSome(w.arg, GZipDecompress(self.configuration.level, w.arg.v)))

GzipCodecMetadata_encode(self, value, array_metadata) ==
    LET w == _needs_bytes(value)
    IN  IF w.skip THEN NoneHandle
        ELSE BufferResult(
               OnSome(w.arg, GZipCompress(self.configuration.level, w.arg.v)))

(***************************************************************************)
(* Method dispatch over the CodecMetadata union: the instance after the    *)
(* call and the call's outcome.                                            *)
(***************************************************************************)
codec_decode(codec, value, array_metadata) ==
    IF codec.name = "blosc"
    THEN BloscCodecMetadata_decode(codec, value, array_metadata)
    ELSE [self |-> codec,
          out |-> IF codec.name = "endian"
                  THEN EndianCodecMetadata_decode(codec, value, array_metadata)
                  ELSE IF codec.name = "transpose"
                  THEN TransposeCodecMetadata_decode(codec, value, array_metadata)
                  ELSE GzipCodecMetadata_decode(codec, value, array_metadata)]

codec_encode(codec, value, array_metadata) ==
    IF codec.name = "blosc"
    THEN BloscCodecMetadata_encode(codec, value, array_metadata)
    ELSE [self |-> codec,
          out |-> IF codec.name = "endian"
                  THEN EndianCodecMetadata_encode(codec, value, array_metadata)
                  ELSE IF codec.name = "transpose"
                  THEN TransposeCodecMetadata_encode(codec, value, array_metadata)
                  ELSE GzipCodecMetadata_encode(codec, value, array_metadata)]

(***************************************************************************)
(* The inputs the model draws from.                                        *)
(***************************************************************************)
Hosts == {"little", "big"}

Metas ==
    {[chunk_shape |-> sh, data_type |-> dt] :
        sh \in {<<3>>, <<2, 3>>}, dt \in {"uint8", "int16"}}

\* The element bytes of a test array: all distinct ("ramp") or all equal.
PatternBytes(pattern, k, j, itemsize) ==
    IF pattern = "ramp" THEN (k - 1) * itemsize + j ELSE 7

ArrayOf(dt, shape, layout, pattern) ==
    NdArray(dt, shape, layout,
            [k \in 1..Product(shape) |->
                [j \in 1..dt.itemsize |-> PatternBytes(pattern, k, j, dt.itemsize)]])

\* The dtypes an array of the metadata's data type may carry: the native
\* one and, for multi-byte items, the explicit orders.
DTypesOf(data_type) ==
    IF NpDtype(data_type).order = "none" THEN {NpDtype(data_type)}
    ELSE {DType(NpDtype(data_type).itemsize, o) : o \in Hosts}

\* Chunks handed to encode: absent, or an array of the chunk shape.
ChunkInputs ==
    {NoneHandle} \cup
    {ArrayHandle(ArrayOf(dt, meta.chunk_shape, layout, pattern)) :
        dt \in DTypesOf(meta.data_type), layout \in {"C", "F", "N"},
        pattern \in {"ramp", "flat"}}

ChunkBytes == Product(meta.chunk_shape) * NpDtype(meta.data_type).itemsize

RawBytes(n) == [i \in 1..n |-> i]

\* Values handed to decode: absent, a flat array or a byte buffer of the
\* chunk's size, one too short, one too long, and compressed buffers.
StoredInputs ==
    {NoneHandle} \cup
    {ArrayHandle(ArrayOf(NpDtype(meta.data_type), <<n>>, "C", "ramp")) :
        n \in {Product(meta.chunk_shape) - 1, Product(meta.chunk_shape),
               Product(meta.chunk_shape) + 1}} \cup
    {BufferHandle(RawBytes(n)) : n \in {ChunkBytes - 1, ChunkBytes}} \cup
    {BufferHandle(GZipCompress(5, RawBytes(ChunkBytes)).v),
     BufferHandle(<<2, 0, ChunkBytes>> \o RLE(RawBytes(ChunkBytes)))}

Perms(n) == {p \in [1..n -> 0..(n - 1)] : IsPermutation(p, n)}

TransposeOrders ==
    {NamedOrder("C"), NamedOrder("F")} \cup
    {TupleOrder(p) : p \in Perms(Len(meta.chunk_shape))}

(***************************************************************************)
(* State.                                                                  *)
(***************************************************************************)
IdleRun ==
    [status |-> "idle", mode |-> "", dir |-> "", leg |-> 0, pos |-> 0,
     orig |-> NoneHandle, prev |-> NoneHandle, value |-> NoneHandle]

Init ==
    /\ host \in Hosts
    /\ meta \in Metas
    /\ chain = <<>>
    /\ run = IdleRun
    /\ log = <<>>
    /\ lists = << <<>> >>
    /\ shards = <<>>

(***************************************************************************)
(* The factory helpers: each constructs a codec instance, which the caller *)
(* appends to the codecs it declares.                                      *)
(***************************************************************************)
blosc_codec(cname, clevel, shuffle, blocksize) ==
    /\ chain' = Append(chain,
                  BloscCodecMetadata(
                    BloscCodecConfigurationMetadata(cname, clevel, shuffle,
                                                    blocksize)))
    /\ UNCHANGED <<host, meta, run, log, lists, shards>>

endian_codec(endian) ==
    /\ chain' = Append(chain,
                  EndianCodecMetadata(EndianCodecConfigurationMetadata(endian)))
    /\ UNCHANGED <<host, meta, run, log, lists, shards>>

transpose_codec(order) ==
    /\ chain' = Append(chain,
                  TransposeCodecMetadata(
                    TransposeCodecConfigurationMetadata(order)))
    /\ UNCHANGED <<host, meta, run, log, lists, shards>>

gzip_codec(level) ==
    /\ chain' = Append(chain,
                  GzipCodecMetadata(GzipCodecConfigurationMetadata(level)))
    /\ UNCHANGED <<host, meta, run, log, lists, shards>>

(***************************************************************************)
(* The codec chain: encode runs the codecs in declared order, decode in    *)
(* reverse declaration order, each stage consuming the previous stage's    *)
(* handle.  A run makes two passes (mode "encdec": encode then decode of   *)
(* the result; mode "decenc": decode then encode) and stops at the first   *)
(* stage that raises.                                                      *)
(***************************************************************************)
Start(mode, value) ==
    /\ run.status = "idle"
    /\ Len(chain) >= 1
    /\ run' = [status |-> "running", mode |-> mode,
               dir |-> IF mode = "encdec" THEN "encode" ELSE "decode",
               leg |-> 1, pos |-> 0,
               orig |-> value, prev |-> value, value |-> value]
    /\ UNCHANGED <<host, meta, chain, log, lists, shards>>

AfterStage(i, r) ==
    /\ chain' = [chain EXCEPT ![i] = r.self]
    /\ run' = [run EXCEPT
                 !.status = IF IsError(r.out) THEN "error"
                            ELSE IF run.pos + 1 = Len(chain) /\ run.leg = 2
                            THEN "done" ELSE "running",
                 !.pos = run.pos + 1,
                 !.prev = run.value,
                 !.value = r.out]
    /\ UNCHANGED <<host, meta, log, lists, shards>>

StepEncode ==
    /\ run.status = "running"
    /\ run.dir = "encode"
    /\ run.pos < Len(chain)
    /\ AfterStage(run.pos + 1,
                  codec_encode(chain[run.pos + 1], run.value, meta))

StepDecode ==
    /\ run.status = "running"
    /\ run.dir = "decode"
    /\ run.pos < Len(chain)
    /\ AfterStage(Len(chain) - run.pos,
                  codec_decode(chain[Len(chain) - run.pos], run.value, meta))

TurnAround ==
    /\ run.status = "running"
    /\ run.leg = 1
    /\ run.pos = Len(chain)
    /\ run' = [run EXCEPT !.leg = 2, !.pos = 0,
                 !.dir = IF run.dir = "encode" THEN "decode" ELSE "encode"]
    /\ UNCHANGED <<host, meta, chain, log, lists, shards>>

\* The stage the run executed last: its codec, and whether it has run.
StageDone == run.status \in {"running", "done", "error"} /\ run.pos >= 1

(***************************************************************************)
(* The single-codec specification: one codec is constructed and run over   *)
(* every input, in both pass orders.                                       *)
(***************************************************************************)
Construct ==
    \/ \E cname \in {"zstd", "lz4", "bogus"},
          shuffle \in {"noshuffle", "bitshuffle"} :
            blosc_codec(cname, 5, shuffle, 0)
    \/ \E endian \in Hosts : endian_codec(endian)
    \/ \E order \in TransposeOrders : transpose_codec(order)
    \/ \E level \in {1, 5} : gzip_codec(level)

Next ==
    \/ (Len(chain) = 0 /\ Construct)
    \/ \E value \in ChunkInputs : Start("encdec", value)
    \/ \E value \in StoredInputs : Start("decenc", value)
    \/ StepEncode
    \/ StepDecode
    \/ TurnAround

Spec == Init /\ [][Next]_vars

(***************************************************************************)
(* Notions the properties are stated in.                                   *)
(***************************************************************************)
\* Equal as numpy arrays: same shape, same dtype, same value at every index.
SameArray(a, b) ==
    /\ a.shape = b.shape
    /\ a.dtype = b.dtype
    /\ ArrayValues(a) = ArrayValues(b)

ByteLen(value) == Len(tobytes(value).v)

OnlyCodec(name) == Len(chain) = 1 /\ chain[1].name = name

\* The first pass of a run over a single codec has executed its one stage.
FirstCallDone == run.leg = 1 /\ run.pos = 1

\* The array a correct axis-permuting decode yields from a flat value: the
\* value viewed as the data type, reshaped to the chunk shape in row-major
\* order, then transposed by the axes.
ReshapedThenTransposed(value, axes) ==
    Transpose(ReshapeTo(ViewDtype(toarray(value).v, NpDtype(meta.data_type)),
                        meta.chunk_shape, "C"),
              axes)

(***************************************************************************)
(* Properties of the single codecs, checked under Spec.                    *)
(***************************************************************************)
\* C3: for every array x of the chunk shape and every axis-order
\* configuration (named "C", named "F", every axis permutation), transpose
\* decode of transpose encode of x returns an array equal to x at every
\* index, with the shape of x.
C3_AxisOrderRoundTrip ==
    (/\ OnlyCodec("transpose")
     /\ run.mode = "encdec"
     /\ run.status \in {"done", "error"}
     /\ run.orig.kind = "Array"
     /\ run.orig.array.dtype = NpDtype(meta.data_type))
    => (/\ run.status = "done"
        /\ run.value.kind = "Array"
        /\ SameArray(run.value.array, run.orig.array))

\* C4: when the configured byte order differs from the input array's current
\* byte order, the endian codec returns a view over the same bytes whose byte
\* order is the configured one and not the input's.
C4_SwapOnMismatch ==
    (/\ OnlyCodec("endian")
     /\ FirstCallDone
     /\ run.prev.kind = "Array"
     /\ run.prev.array.dtype.itemsize > 1
     /\ chain[1].configuration.endian # run.prev.array.dtype.order)
    => (/\ run.value.kind = "Array"
        /\ MemBytes(run.value.array) = MemBytes(run.prev.array)
        /\ run.value.array.dtype.order = chain[1].configuration.endian
        /\ run.value.array.dtype.order # run.prev.array.dtype.order)

\* C6: transpose decode of a flat value whose byte length differs from
\* product(chunk_shape) * item size ends in an error, under every
\* configuration; it never returns an array.
C6_ShapeMismatchFatal ==
    (/\ OnlyCodec("transpose")
     /\ run.mode = "decenc"
     /\ FirstCallDone
     /\ run.orig.kind = "Array"
     /\ Len(run.orig.array.shape) = 1
     /\ ByteLen(run.orig) # ChunkBytes)
    => run.status = "error"

\* C7: endian encode followed by endian decode with the same configuration,
\* and endian decode followed by endian encode, never raises and yields an
\* array whose underlying bytes are those of the input array.
C7_ByteOrderRoundTrip ==
    (/\ OnlyCodec("endian")
     /\ run.orig.kind = "Array")
    => (/\ run.status # "error"
        /\ run.status = "done" =>
             (/\ run.value.kind = "Array"
              /\ MemBytes(run.value.array) = MemBytes(run.orig.array)))

C7_Witness ==
    /\ OnlyCodec("endian")
    /\ run.status = "done"
    /\ run.orig.kind = "Array"
    /\ run.orig.array.dtype.itemsize > 1
    /\ run.orig.array.elems[1][1] # run.orig.array.elems[1][2]
    /\ chain[1].configuration.endian # run.orig.array.dtype.order

\* C8: transpose decode with an explicit axis permutation returns the flat
\* input reshaped to the chunk shape in row-major order and then transposed:
\* its shape is the chunk shape permuted by the axes, and each element is the
\* element of the reshaped chunk at the corresponding index.
C8_DecodePermutation ==
    (/\ OnlyCodec("transpose")
     /\ chain[1].configuration.order.istuple
     /\ run.mode = "decenc"
     /\ FirstCallDone
     /\ run.orig.kind = "Array"
     /\ Len(run.orig.array.shape) = 1
     /\ ByteLen(run.orig) = ChunkBytes)
    => (/\ run.status # "error"
        /\ run.value.kind = "Array"
        /\ run.value.array.shape =
             ReshapedThenTransposed(run.orig, chain[1].configuration.order.axes).shape
        /\ run.value.array.elems =
             ReshapedThenTransposed(run.orig, chain[1].configuration.order.axes).elems)

(***************************************************************************)
(* The chain specification: up to MaxChain codecs are declared, in any     *)
(* order, and the chain is run in both pass orders.                        *)
(***************************************************************************)
ChainConstruct ==
    \/ \E cname \in {"zstd", "bogus"} : blosc_codec(cname, 5, "noshuffle", 0)
    \/ \E endian \in Hosts : endian_codec(endian)
    \/ \E order \in TransposeOrders : transpose_codec(order)
    \/ gzip_codec(5)

ChainChunkInputs ==
    {NoneHandle,
     ArrayHandle(ArrayOf(NpDtype(meta.data_type), meta.chunk_shape, "C", "ramp"))}

ChainStoredInputs == {NoneHandle, BufferHandle(RawBytes(ChunkBytes))}

InitChain ==
    /\ Init
    /\ meta.data_type = "int16"

NextChain ==
    \/ (Len(chain) < MaxChain /\ run.status = "idle" /\ ChainConstruct)
    \/ \E value \in ChainChunkInputs : Start("encdec", value)
    \/ \E value \in ChainStoredInputs : Start("decenc", value)
    \/ StepEncode
    \/ StepDecode
    \/ TurnAround

SpecChain == InitChain /\ [][NextChain]_vars

ChainNames == [i \in 1..Len(chain) |-> chain[i].name]

\* C1: a codec given an Empty handle returns an Empty handle and raises
\* nothing, in both directions, so a run started on an Empty value stays
\* Empty through every stage of every chain and never ends in an error.
C1_AbsencePropagation ==
    /\ (StageDone /\ run.prev.kind = "Empty")
         => (run.value.kind = "Empty" /\ run.status # "error")
    /\ (run.status # "idle" /\ run.orig.kind = "Empty")
         => (run.value.kind = "Empty" /\ run.status # "error")

C1_Witness ==
    /\ ChainNames = <<"transpose", "endian", "blosc">>
    /\ chain[3].configuration.cname = "bogus"
    /\ run.status = "done"
    /\ run.orig.kind = "Empty"
    /\ run.value.kind = "Empty"

\* C2: over the chain [transpose, endian, blosc], encode in declared order
\* followed by decode in reverse order reproduces the original array, with
\* its dtype and shape, for every array of the chunk shape and every codec
\* configuration.
C2_ChainRoundTrip ==
    (/\ ChainNames = <<"transpose", "endian", "blosc">>
     /\ chain[3].configuration.cname \in BloscCompressors
     /\ run.mode = "encdec"
     /\ run.status \in {"done", "error"}
     /\ run.orig.kind = "Array")
    => (/\ run.status = "done"
        /\ run.value.kind = "Array"
        /\ SameArray(run.value.array, run.orig.array))

(***************************************************************************)
(* The call specification: codec instances are constructed, then encode    *)
(* and decode are called on them directly, in any order, each call and its *)
(* outcome being logged.                                                   *)
(***************************************************************************)
Logged(i, method, value, r) ==
    /\ chain' = [chain EXCEPT ![i] = r.self]
    /\ log' = Append(log, [codec |-> i, method |-> method, value |-> value,
                           before |-> chain[i], after |-> r.self,
                           out |-> r.out])
    /\ UNCHANGED <<host, meta, run, lists, shards>>

CallEncode(i, value) ==
    /\ i \in 1..Len(chain)
    /\ Logged(i, "encode", value, codec_encode(chain[i], value, meta))

CallDecode(i, value) ==
    /\ i \in 1..Len(chain)
    /\ Logged(i, "decode", value, codec_decode(chain[i], value, meta))

\* The values a caller hands to a call: absent, a raw buffer, a chunk, or
\* what an earlier call returned.
CallInputs ==
    {NoneHandle, BufferHandle(RawBytes(ChunkBytes)),
     ArrayHandle(ArrayOf(NpDtype(meta.data_type), meta.chunk_shape, "C", "ramp"))}
    \cup {log[k].out : k \in {j \in 1..Len(log) : ~IsError(log[j].out)}}

CallConstruct ==
    \/ \E cfg \in {<<"zstd", "shuffle">>, <<"bogus", "noshuffle">>} :
          blosc_codec(cfg[1], 5, cfg[2], 0)
    \/ endian_codec("big")
    \/ transpose_codec(TupleOrder(<<1, 0>>))
    \/ gzip_codec(5)

InitCalls ==
    /\ Init
    /\ meta = [chunk_shape |-> <<2, 3>>, data_type |-> "int16"]

NextCalls ==
    \/ (Len(chain) < 2 /\ Len(log) = 0 /\ CallConstruct)
    \/ (Len(log) < MaxCalls
        /\ \E i \in 1..Len(chain), value \in CallInputs : CallEncode(i, value))
    \/ (Len(log) < MaxCalls
        /\ \E i \in 1..Len(chain), value \in CallInputs : CallDecode(i, value))

SpecCalls == InitCalls /\ [][NextCalls]_vars

\* C5: a blosc codec constructed with a compressor name outside the legal
\* set fails at construction, so no codec instance carrying an unrecognized
\* name exists, and none reaches encode or decode.
C5_FailFastConfiguration ==
    /\ \A i \in 1..Len(chain) :
         chain[i].name = "blosc" =>
             chain[i].configuration.cname \in BloscCompressors
    /\ \A k \in 1..Len(log) :
         log[k].before.name = "blosc" =>
             log[k].before.configuration.cname \in BloscCompressors

SameCall(a, b) ==
    a.codec = b.codec /\ a.method = b.method /\ a.value = b.value

\* C10: every call, also one that ends in an error, leaves the codec
\* instance as it was, and a call's outcome depends only on the codec, the
\* method and the value: the same call has the same outcome whatever calls
\* came before it.
C10_NoStateBetweenCalls ==
    /\ \A k \in 1..Len(log) : log[k].after = log[k].before
    /\ \A j \in 1..Len(log), k \in 1..Len(log) :
         SameCall(log[j], log[k]) => log[j].out = log[k].out

C10_Witness ==
    /\ Len(log) = 3
    /\ chain[1].name = "blosc"
    /\ SameCall(log[1], log[3])
    /\ log[1].out.kind = "Bytes"
    /\ IsError(log[2].out)
    /\ log[3].out = log[1].out

(***************************************************************************)
(* The sharding specification: sharding_codec is called with and without   *)
(* the codecs argument, and callers append to the codec lists of the       *)
(* configurations it returned.  `lists` is the heap of list objects;       *)
(* lists[1] is the list the def statement evaluated as the default.        *)
(***************************************************************************)
DefaultCodecs == 1

ShardingCodecMetadata(chunk_shape, codecs, omitted) ==
    [name |-> "sharding",
     configuration |-> [chunk_shape |-> chunk_shape, codecs |-> codecs],
     omitted |-> omitted,
     initially |-> IF codecs <= Len(lists) THEN lists[codecs] ELSE <<>>]

\* A call that omits codecs: the parameter is bound to the default object.
sharding_codec_default(chunk_shape) ==
    /\ Len(shards) < MaxShards
    /\ shards' = Append(shards,
                   ShardingCodecMetadata(chunk_shape, DefaultCodecs, TRUE))
    /\ UNCHANGED <<host, meta, chain, run, log, lists>>

\* A call that passes codecs: the caller's own, newly made, empty list.
sharding_codec(chunk_shape) ==
    /\ Len(shards) < MaxShards
    /\ lists' = Append(lists, <<>>)
    /\ shards' = Append(shards,
                   ShardingCodecMetadata(chunk_shape, Len(lists) + 1, FALSE))
    /\ UNCHANGED <<host, meta, chain, run, log>>

\* configuration.codecs.append(codec) on a returned configuration.
AppendCodec(i, codec) ==
    /\ i \in 1..Len(shards)
    /\ Len(lists[shards[i].configuration.codecs]) < MaxListLen
    /\ lists' = [lists EXCEPT ![shards[i].configuration.codecs] = Append(@, codec)]
    /\ UNCHANGED <<host, meta, chain, run, log, shards>>

NextShard ==
    \/ \E chunk_shape \in {<<2>>, <<2, 2>>} : sharding_codec_default(chunk_shape)
    \/ \E chunk_shape \in {<<2>>, <<2, 2>>} : sharding_codec(chunk_shape)
    \/ \E i \in 1..Len(shards), codec \in {"gzip", "endian"} : AppendCodec(i, codec)

InitShard ==
    /\ Init
    /\ host = "little"
    /\ meta = [chunk_shape |-> <<3>>, data_type |-> "uint8"]

SpecShard == InitShard /\ [][NextShard]_vars

\* C9: every call of sharding_codec that omits codecs yields a configuration
\* whose codec list is empty when returned and is an object of its own, so
\* appending to one configuration's list never changes another's.
C9_NoSharedDefault ==
    \A i \in 1..Len(shards) :
        shards[i].omitted =>
            /\ shards[i].initially = <<>>
            /\ \A j \in 1..Len(shards) :
                 j # i =>
                   shards[j].configuration.codecs # shards[i].configuration.codecs

====
